---- MODULE Spec2Model ----
(***************************************************************************)
(* Model of regulations_aggregator.py: the schema bootstrap (init_db),     *)
(* the staleness-aware upsert (store_records), the per-source normalizers  *)
(* and the fetch loop that feeds them into the store.                      *)
(*                                                                         *)
(* Text whose ORDER the program depends on (source_last_modified, dates,   *)
(* isoformat timestamps) is a sequence of character codes, so that         *)
(* Python's str comparison is computed and not assumed; its empty string   *)
(* is <<>>.  Other text is a TLA+ string; its empty string is "".          *)
(* A Python dict is a function whose DOMAIN is the set of keys present.    *)
(***************************************************************************)
EXTENDS Naturals, Sequences, FiniteSets, TLC

VARIABLES
    schema,        \* sqlite_master: table name -> column list, for the tables that exist
    regulations,   \* rows of the regulations table, as the open connection sees them
    pc,            \* where the single thread is: "idle" or inside store_records' loop
    level,         \* store_records' argument level
    source_url,    \* store_records' argument source_url
    now,           \* store_records' local now (line 58)
    remaining,     \* records of the running call's batch not yet iterated
    written,       \* ids the running call has written so far
    branch,        \* which branch the last loop iteration took (lines 62, 73, 77)
    printed,       \* the line the last loop iteration printed, "" for none
    raised,        \* the exception the last call ended with, "" for none
    lastCall,      \* the function called last from outside
    replacedLevel, \* the level of the row the last iteration replaced, or ""
    submitted,     \* every non-empty id handed to store_records so far
    accepted,      \* those of them handed over in an iteration that did not raise
    fetch,         \* the running fetch_*_updates call: its source ("" for none)
                   \* and the index of its keyword in SEARCH_KEYWORDS
    normFn,        \* the normalizer called, its input, and its output once
    normIn,        \* it has run (the specification SpecNorm)
    normOut,
    normDone,
    agg,           \* the aggregate_updates call: its state, the sources still to
                   \* fetch, and the API keys of the process (the specification SpecAgg)
    requests,      \* source -> requests.get calls the run has made for it
    failed,        \* sources a request of which raised a RequestException in the run
    contributed,   \* sources for which the run has written a row
    durable,       \* the rows of regulations that are committed
    conns,         \* functions that ended leaving their connection open
    briefs,        \* rows of the briefs table (the specification SpecBriefs)
    seen           \* id -> what the records stored for it so far call for: their
                   \* greatest marker, whether all had one, and the row of the
                   \* first with that marker (the specification SpecSeen)

storeVars == <<schema, regulations, pc, level, source_url, now, remaining,
               written, branch, printed, raised, lastCall, replacedLevel,
               submitted, accepted, fetch>>
normVars == <<normFn, normIn, normOut, normDone>>
aggVars == <<agg, requests, failed, contributed, durable, conns>>
vars == <<storeVars, normVars, aggVars, briefs, seen>>

----------------------------------------------------------------------------
(* Bounds of the model *)

MaxTime == 2
MaxBatch == 3
MaxItems == 2
\* SEARCH_KEYWORDS (line 16) has ten keywords; the model's loop runs over this many
NumKeywords == 2

----------------------------------------------------------------------------
(* Strings that are compared *)

\* The markers the model draws from: "", "1", "11", "2".  They hold the empty
\* marker, a proper prefix of another marker, and markers that differ at a
\* character.
Markers == {<<>>, <<1>>, <<1, 1>>, <<2>>}

Min(a, b) == IF a <= b THEN a ELSE b

\* StrLess on the common length only, as a comparison of the dates of two
\* markers would be: a proper prefix is not smaller
StrLessCommonLength(s, t) ==
    \E i \in 1..Min(Len(s), Len(t)) :
        /\ s[i] < t[i]
        /\ \A j \in 1..(i - 1) : s[j] = t[j]

\* Python's s < t on str: the first differing character decides, and a proper
\* prefix is smaller.
StrLess(s, t) ==
    \/ \E i \in 1..Min(Len(s), Len(t)) :
          /\ s[i] < t[i]
          /\ \A j \in 1..(i - 1) : s[j] = t[j]
    \/ /\ Len(s) < Len(t)
       /\ \A j \in 1..Len(s) : s[j] = t[j]

StrGeq(s, t) == ~StrLess(s, t)

----------------------------------------------------------------------------
(* Python dicts *)

Get(d, key, default) == IF key \in DOMAIN d THEN d[key] ELSE default

Merge(f, g) ==
    [k \in (DOMAIN f) \cup (DOMAIN g) |-> IF k \in DOMAIN f THEN f[k] ELSE g[k]]

NoKeys == [k \in {} |-> ""]

----------------------------------------------------------------------------
(* init_db *)

RegulationsColumns ==
    <<"id", "level", "title", "description", "published_date", "full_text",
      "source_url", "source_last_modified", "last_updated">>

BriefsColumns ==
    <<"regulation_id", "business_impact", "action_required", "penalty",
      "generated_at">>

\* CREATE TABLE IF NOT EXISTS name (columns)
CreateTableIfNotExists(sch, name, columns) ==
    IF name \in DOMAIN sch THEN sch
    ELSE [t \in (DOMAIN sch) \cup {name} |-> IF t = name THEN columns ELSE sch[t]]

\* init_db with CREATE TABLE for CREATE TABLE IF NOT EXISTS
InitDbCreateOnly(sch, tbl) ==
    IF "regulations" \in DOMAIN sch
    THEN [schema |-> sch, rows |-> tbl, raised |-> "OperationalError"]
    ELSE [schema |-> [t \in {"regulations", "briefs"} |->
                        IF t = "regulations" THEN RegulationsColumns
                        ELSE BriefsColumns],
          rows |-> tbl,
          raised |-> ""]

\* lines 21-47: what init_db leaves: the tables, the rows of regulations, and
\* the exception it ends with ("" for none)
InitDbEffect(sch, tbl) ==
    [schema |-> CreateTableIfNotExists(
                    CreateTableIfNotExists(sch, "regulations", RegulationsColumns),
                    "briefs", BriefsColumns),
     rows |-> tbl,
     raised |-> ""]

----------------------------------------------------------------------------
(* store_records *)

\* The ids of the model: a federal document id and a state bill id
Ids == {"FED-1", "nys-2025-S1"}
FederalUrl == "https://api.regulations.gov/v4/documents"
StateUrl == "https://legislation.nysenate.gov/api/3/bills"
\* (level, source_url) as the callers of store_records pass them, lines 137, 184
CallSites == {<<"federal", FederalUrl>>, <<"state", StateUrl>>}
Instants == 1..MaxTime

\* datetime.isoformat(): a string whose order is that of the instants
Isoformat(t) == <<t>>

\* The inputs of a direct call: records with any of the six keys absent.  The
\* federal id comes with every marker and both contents, the state id with two
\* records, enough for a second row to stand beside the first.
IdParts == {NoKeys} \cup {[id |-> i] : i \in {"FED-1", ""}}
MarkerParts == {NoKeys} \cup {[source_last_modified |-> m] : m \in Markers}
ContentParts ==
    { [title |-> "T1", description |-> "D1", published_date |-> <<1>>,
       full_text |-> "F1"],
      [title |-> "T2"] }
Records ==
    {Merge(i, Merge(m, c)) : i \in IdParts, m \in MarkerParts, c \in ContentParts}
    \cup { [id |-> "nys-2025-S1", title |-> "T1", description |-> "D1",
            published_date |-> <<1>>, full_text |-> "F1",
            source_last_modified |-> <<1>>],
           [id |-> "nys-2025-S1", title |-> "T2"] }

\* HasId, taking the empty string for an id
HasIdKeyOnly(rec) == "id" \in DOMAIN rec

\* line 62: not doc_id (None when the key is absent, or the empty string)
HasId(rec) == "id" \in DOMAIN rec /\ rec["id"] # ""

\* line 65
SourceMod(rec) == Get(rec, "source_last_modified", <<>>)

\* lines 68-72: SELECT source_last_modified ... WHERE id = ?; fetchone().
\* <<>> is None, <<m>> the one-column row.
FetchOne(tbl, doc_id) ==
    IF \E r \in tbl : r.id = doc_id
    THEN <<(CHOOSE r \in tbl : r.id = doc_id).source_last_modified>>
    ELSE <<>>

\* IsStale with > for >=
IsStaleStrict(existing, source_mod) ==
    /\ existing # <<>>
    /\ existing[1] # <<>>
    /\ source_mod # <<>>
    /\ StrLess(source_mod, existing[1])

\* IsStale with <= for >=
IsStaleReversed(existing, source_mod) ==
    /\ existing # <<>>
    /\ existing[1] # <<>>
    /\ source_mod # <<>>
    /\ StrGeq(source_mod, existing[1])

\* IsStale without the test of source_mod
IsStaleAnyIncoming(existing, source_mod) ==
    /\ existing # <<>>
    /\ existing[1] # <<>>
    /\ StrGeq(existing[1], source_mod)

\* IsStale with no record ever stale: every record with an id is written
IsStaleNever(existing, source_mod) == FALSE

\* line 73
IsStale(existing, source_mod) ==
    /\ existing # <<>>
    /\ existing[1] # <<>>
    /\ source_mod # <<>>
    /\ StrGeq(existing[1], source_mod)

\* NewRow with the level a constant
NewRowFederal(rec, lv, url, t) ==
    [id |-> rec["id"],
     level |-> "federal",
     title |-> Get(rec, "title", ""),
     description |-> Get(rec, "description", ""),
     published_date |-> Get(rec, "published_date", <<>>),
     full_text |-> Get(rec, "full_text", ""),
     source_url |-> url,
     source_last_modified |-> SourceMod(rec),
     last_updated |-> Isoformat(t)]

\* lines 82-92: the row's nine values
NewRow(rec, lv, url, t) ==
    [id |-> rec["id"],
     level |-> lv,
     title |-> Get(rec, "title", ""),
     description |-> Get(rec, "description", ""),
     published_date |-> Get(rec, "published_date", <<>>),
     full_text |-> Get(rec, "full_text", ""),
     source_url |-> url,
     source_last_modified |-> SourceMod(rec),
     last_updated |-> Isoformat(t)]

\* a plain INSERT into a table without the primary key
InsertOnly(tbl, row) == tbl \cup {row}

\* lines 77-81: INSERT OR REPLACE on the primary key id
InsertOrReplace(tbl, row) == {r \in tbl : r.id # row.id} \cup {row}

\* StoreOne with INSERT OR IGNORE: a row that exists is kept
StoreOneIgnore(tbl, rec, lv, url, t) ==
    IF ~HasId(rec) THEN tbl
    ELSE IF FetchOne(tbl, rec["id"]) # <<>> THEN tbl
    ELSE InsertOrReplace(tbl, NewRow(rec, lv, url, t))

\* StoreOne with an UPDATE of the title and the marker of a row that exists
StoreOnePatch(tbl, rec, lv, url, t) ==
    IF ~HasId(rec) THEN tbl
    ELSE IF IsStale(FetchOne(tbl, rec["id"]), SourceMod(rec)) THEN tbl
    ELSE IF FetchOne(tbl, rec["id"]) = <<>>
         THEN InsertOrReplace(tbl, NewRow(rec, lv, url, t))
         ELSE {IF r.id = rec["id"]
               THEN [r EXCEPT !.title = Get(rec, "title", ""),
                              !.source_last_modified = SourceMod(rec),
                              !.last_updated = Isoformat(t)]
               ELSE r : r \in tbl}

\* One iteration of the loop of lines 60-93, the table existing: the table
\* afterwards.
StoreOne(tbl, rec, lv, url, t) ==
    IF ~HasId(rec) THEN tbl
    ELSE IF IsStale(FetchOne(tbl, rec["id"]), SourceMod(rec)) THEN tbl
    ELSE InsertOrReplace(tbl, NewRow(rec, lv, url, t))

\* Which way an iteration goes: the continue of line 63, the SELECT of line 68
\* raising for want of the table, the skip of lines 74-75 (the markers equal, or
\* the incoming one older), or the write of lines 77-93 (of a new id, over an
\* empty stored marker, with an empty incoming marker, or with a newer one).
BranchOf(sch, tbl, rec) ==
    IF ~HasId(rec) THEN "no_id"
    ELSE IF "regulations" \notin DOMAIN sch THEN "no_table"
    ELSE LET existing == FetchOne(tbl, rec["id"])
             source_mod == SourceMod(rec)
         IN  IF IsStale(existing, source_mod)
             THEN IF existing[1] = source_mod THEN "skip_same" ELSE "skip_older"
             ELSE IF existing = <<>> THEN "insert"
             ELSE IF existing[1] = <<>> THEN "replace_stored_empty"
             ELSE IF source_mod = <<>> THEN "replace_incoming_empty"
             ELSE "replace_newer"

Skips == {"skip_same", "skip_older"}
Replaces == {"replace_stored_empty", "replace_incoming_empty", "replace_newer"}
Writes == {"insert"} \cup Replaces

\* lines 74 and 93: what the iteration prints
PrintOf(b) ==
    IF b \in Skips THEN "Skipping"
    ELSE IF b \in Writes THEN "Stored/Updated"
    ELSE ""

\* the level of the row with this id, "" when there is none
LevelOf(tbl, doc_id) ==
    IF \E r \in tbl : r.id = doc_id
    THEN (CHOOSE r \in tbl : r.id = doc_id).level
    ELSE ""

----------------------------------------------------------------------------
(* json.dumps of the dicts the normalizers serialize.  A dict is written in  *)
(* the order of its keys in the response; a character-code string is written *)
(* by its codes.                                                             *)

JsonStr(s) == "\"" \o s \o "\""
JsonChars(m) == "\"" \o ToString(m) \o "\""

RECURSIVE JoinComma(_)
JoinComma(parts) ==
    IF parts = <<>> THEN ""
    ELSE IF Len(parts) = 1 THEN parts[1]
    ELSE parts[1] \o ", " \o JoinComma(Tail(parts))

JsonObject(members) ==
    "{" \o JoinComma([i \in 1..Len(members) |->
                        JsonStr(members[i][1]) \o ": " \o members[i][2]]) \o "}"

FederalAttrKeys ==
    <<"documentId", "title", "summary", "abstract", "postedDate",
      "lastModifiedDate">>

PresentKeys(d, keys) == SelectSeq(keys, LAMBDA k : k \in DOMAIN d)

\* line 111: json.dumps(attrs)
JsonDumpsAttrs(attrs) ==
    LET present == PresentKeys(attrs, FederalAttrKeys)
    IN  JsonObject([i \in 1..Len(present) |->
            <<present[i],
              IF present[i] \in {"postedDate", "lastModifiedDate"}
              THEN JsonChars(attrs[present[i]])
              ELSE JsonStr(attrs[present[i]])>>])

\* A JSON value that is a mapping is [dict |-> d]; one that is a string is
\* [str |-> s] (line 154 asks isinstance(status, dict)).
IsDict(v) == "dict" \in DOMAIN v

StatusKeys == <<"statusDesc", "actionDate">>

JsonDumpsStatus(status) ==
    IF IsDict(status)
    THEN LET present == PresentKeys(status.dict, StatusKeys)
         IN  JsonObject([i \in 1..Len(present) |->
                 <<present[i],
                   IF present[i] = "actionDate"
                   THEN JsonChars(status.dict[present[i]])
                   ELSE JsonStr(status.dict[present[i]])>>])
    ELSE JsonStr(status.str)

BillKeys == <<"basePrintNo", "session", "title", "summary", "status">>

\* line 162: json.dumps(bill)
JsonDumpsBill(bill) ==
    LET present == PresentKeys(bill, BillKeys)
    IN  JsonObject([i \in 1..Len(present) |->
            <<present[i],
              IF present[i] = "status"
              THEN JsonDumpsStatus(bill[present[i]])
              ELSE JsonStr(bill[present[i]])>>])

----------------------------------------------------------------------------
(* normalize_federal *)

\* a or b without the fallback
OrElseFirst(a, b, empty) == a

\* Python's  a or b  on strings
OrElse(a, b, empty) == IF a # empty THEN a ELSE b

\* lines 105-114: the record of one item
FederalRecord(item) ==
    LET attrs == Get(item, "attributes", NoKeys)
    IN  [id |-> OrElse(Get(attrs, "documentId", ""), Get(item, "id", ""), ""),
         title |-> Get(attrs, "title", ""),
         description |->
             OrElse(Get(attrs, "summary", ""), Get(attrs, "abstract", ""), ""),
         published_date |-> Get(attrs, "postedDate", <<>>),
         full_text |-> JsonDumpsAttrs(attrs),
         source_last_modified |->
             OrElse(Get(attrs, "lastModifiedDate", <<>>),
                    Get(attrs, "postedDate", <<>>), <<>>)]

\* normalize_federal passing over the items that have no attributes
RECURSIVE normalize_federal_skipping(_)
normalize_federal_skipping(data) ==
    IF data = <<>> THEN <<>>
    ELSE IF "attributes" \in DOMAIN Head(data)
         THEN <<FederalRecord(Head(data))>> \o normalize_federal_skipping(Tail(data))
         ELSE normalize_federal_skipping(Tail(data))

\* lines 103-115
RECURSIVE normalize_federal(_)
normalize_federal(data) ==
    IF data = <<>> THEN <<>>
    ELSE <<FederalRecord(Head(data))>> \o normalize_federal(Tail(data))

----------------------------------------------------------------------------
(* normalize_state *)

\* line 159: f"{print_no}: {title}".strip(), for a print number and a title
\* that neither start nor end with white space
StripTitle(print_no, title) ==
    IF title = "" THEN print_no \o ":" ELSE print_no \o ": " \o title

\* StateRecord with an id made of the print number alone
StateRecordNoSession(item) ==
    LET bill == Get(item, "result", NoKeys)
        print_no == Get(bill, "basePrintNo", "")
        status == Get(bill, "status", [dict |-> NoKeys])
        action_date ==
            IF IsDict(status) THEN Get(status.dict, "actionDate", <<>>) ELSE <<>>
    IN  [id |-> "nys-" \o print_no,
         title |-> StripTitle(print_no, Get(bill, "title", "")),
         description |-> Get(bill, "summary", ""),
         published_date |-> action_date,
         full_text |-> JsonDumpsBill(bill),
         source_last_modified |-> action_date]

\* StateRecord with an id that is empty when the session and the print number
\* are
StateRecordEmptyId(item) ==
    LET bill == Get(item, "result", NoKeys)
        print_no == Get(bill, "basePrintNo", "")
        session == Get(bill, "session", "")
        status == Get(bill, "status", [dict |-> NoKeys])
        action_date ==
            IF IsDict(status) THEN Get(status.dict, "actionDate", <<>>) ELSE <<>>
    IN  [id |-> IF session = "" /\ print_no = "" THEN ""
                ELSE "nys-" \o session \o "-" \o print_no,
         title |-> StripTitle(print_no, Get(bill, "title", "")),
         description |-> Get(bill, "summary", ""),
         published_date |-> action_date,
         full_text |-> JsonDumpsBill(bill),
         source_last_modified |-> action_date]

\* lines 148-164: the record of one item
StateRecord(item) ==
    LET bill == Get(item, "result", NoKeys)
        print_no == Get(bill, "basePrintNo", "")
        session == Get(bill, "session", "")
        status == Get(bill, "status", [dict |-> NoKeys])
        action_date ==
            IF IsDict(status) THEN Get(status.dict, "actionDate", <<>>) ELSE <<>>
    IN  [id |-> "nys-" \o session \o "-" \o print_no,
         title |-> StripTitle(print_no, Get(bill, "title", "")),
         description |-> Get(bill, "summary", ""),
         published_date |-> action_date,
         full_text |-> JsonDumpsBill(bill),
         source_last_modified |-> action_date]

\* lines 146-165
RECURSIVE normalize_state(_)
normalize_state(items) ==
    IF items = <<>> THEN <<>>
    ELSE <<StateRecord(Head(items))>> \o normalize_state(Tail(items))

----------------------------------------------------------------------------
(* The raw items the normalizers are given *)

FederalAttrs ==
    { NoKeys,
      [documentId |-> "FED-1", title |-> "Federal Rule", summary |-> "A summary",
       postedDate |-> <<1>>, lastModifiedDate |-> <<2>>],
      [title |-> "No documentId"],
      [abstract |-> "An abstract"],
      [documentId |-> "", summary |-> "", abstract |-> "An abstract",
       postedDate |-> <<1, 1>>, lastModifiedDate |-> <<>>],
      [documentId |-> "FED-1", summary |-> "S", abstract |-> "An abstract",
       postedDate |-> <<1>>] }

RawFederal ==
    {Merge(i, a) : i \in {NoKeys, [id |-> "FALLBACK-ID"]},
                   a \in {NoKeys} \cup {[attributes |-> x] : x \in FederalAttrs}}

Bills ==
    { NoKeys,
      [basePrintNo |-> "S1", session |-> "2025", title |-> "Bill",
       summary |-> "Sum",
       status |-> [dict |-> [statusDesc |-> "In Committee", actionDate |-> <<1>>]]],
      [basePrintNo |-> "S1", session |-> "2025",
       status |-> [dict |-> [actionDate |-> <<2>>]]],
      [basePrintNo |-> "S1", title |-> "Bill", status |-> [str |-> "PASSED"]],
      [session |-> "2025", status |-> [dict |-> NoKeys]],
      [basePrintNo |-> "A2", session |-> "2025", title |-> "Other"],
      [basePrintNo |-> "A-1", session |-> "2025"],
      [basePrintNo |-> "1", session |-> "2025-A"] }

RawState == {NoKeys} \cup {[result |-> b] : b \in Bills}

RECURSIVE SeqsUpTo(_, _)
SeqsUpTo(S, n) ==
    IF n = 0 THEN {<<>>}
    ELSE SeqsUpTo(S, n - 1) \cup
         {Append(q, x) : q \in {r \in SeqsUpTo(S, n - 1) : Len(r) = n - 1}, x \in S}

\* What the upstream APIs return in the model's runs of the fetch functions
FederalItems ==
    { NoKeys,
      [id |-> "FED-1",
       attributes |-> [documentId |-> "FED-1", title |-> "Federal Rule",
                       summary |-> "A summary", postedDate |-> <<1>>,
                       lastModifiedDate |-> <<2>>]],
      [id |-> "FED-1", attributes |-> [title |-> "Federal Rule",
                                       postedDate |-> <<1>>]] }

StateItems ==
    { [result |-> [basePrintNo |-> "S1", session |-> "2025", title |-> "Bill",
                   summary |-> "Sum",
                   status |-> [dict |-> [statusDesc |-> "In Committee",
                                         actionDate |-> <<1>>]]]],
      [result |-> [basePrintNo |-> "S1", session |-> "2025", title |-> "Bill",
                   status |-> [dict |-> [actionDate |-> <<2>>]]]] }

\* The records a fetch function hands to store_records (lines 136, 183)
FetchedRecords(source) ==
    IF source = "federal"
    THEN {normalize_federal(<<i>>)[1] : i \in FederalItems}
    ELSE {normalize_state(<<i>>)[1] : i \in StateItems}

Sources == {"federal", "state"}
BaseUrl(source) == IF source = "federal" THEN FederalUrl ELSE StateUrl
\* FEDERAL_API_KEY, STATE_API_KEY (lines 10-11): unset, or set
ApiKeys == {"", "test-key"}

----------------------------------------------------------------------------
(* The state machine *)

NoFetch == [source |-> "", kw |-> 0]

InitStore ==
    /\ schema = NoKeys
    /\ regulations = {}
    /\ pc = "idle"
    /\ level = ""
    /\ source_url = ""
    /\ now = 0
    /\ remaining = 0
    /\ written = {}
    /\ branch = "none"
    /\ printed = ""
    /\ raised = ""
    /\ lastCall = ""
    /\ replacedLevel = ""
    /\ submitted = {}
    /\ accepted = {}
    /\ fetch = NoFetch
    /\ briefs = {}
    /\ seen = NoKeys

NormIdle ==
    /\ normFn = ""
    /\ normIn = <<>>
    /\ normOut = <<>>
    /\ normDone = FALSE

\* no aggregate_updates call has been made; the database file is new
AggIdle ==
    /\ agg = [state |-> "none", sources |-> <<>>, todo |-> <<>>,
              keys |-> [s \in {"federal", "state"} |-> ""]]
    /\ requests = [s \in {"federal", "state"} |-> 0]
    /\ failed = {}
    /\ contributed = {}
    /\ durable = {}
    /\ conns = {}

Init == InitStore /\ NormIdle /\ AggIdle

\* init_db(), lines 20-47
InitDb ==
    /\ pc = "idle"
    /\ schema' = InitDbEffect(schema, regulations).schema
    /\ regulations' = InitDbEffect(schema, regulations).rows
    /\ raised' = InitDbEffect(schema, regulations).raised
    /\ lastCall' = "init_db"
    /\ printed' = ""
    /\ UNCHANGED <<pc, level, source_url, now, remaining, written, branch,
                   replacedLevel, submitted, accepted, fetch>>
    /\ UNCHANGED normVars

\* lines 56-58: store_records connects and reads the clock; its batch has n
\* records
EnterStore(lv, url, t, n) ==
    /\ pc' = "store"
    /\ level' = lv
    /\ source_url' = url
    /\ now' = t
    /\ remaining' = n
    /\ written' = {}
    /\ branch' = "none"
    /\ replacedLevel' = ""
    /\ printed' = ""
    /\ raised' = ""

\* a direct call store_records(lv, records, url)
StoreBegin(lv, url, t, n) ==
    /\ pc = "idle"
    /\ EnterStore(lv, url, t, n)
    /\ lastCall' = "store_records"
    /\ UNCHANGED <<schema, regulations, submitted, accepted, fetch>>
    /\ UNCHANGED normVars

\* the locals of store_records are gone when it returns or raises
LeaveStore ==
    /\ level' = ""
    /\ source_url' = ""
    /\ now' = 0
    /\ remaining' = 0
    /\ written' = {}

\* lines 60-93: the loop's next iteration, on record rec
StoreStep(rec) ==
    /\ pc = "store"
    /\ remaining > 0
    /\ branch' = BranchOf(schema, regulations, rec)
    /\ submitted' = IF HasId(rec) THEN submitted \cup {rec["id"]} ELSE submitted
    /\ IF branch' = "no_table"
       THEN \* the SELECT raises sqlite3.OperationalError, which neither
            \* store_records nor the fetch functions catch
            /\ pc' = "idle"
            /\ raised' = "OperationalError"
            /\ printed' = ""
            /\ fetch' = NoFetch
            /\ LeaveStore
            /\ replacedLevel' = ""
            /\ UNCHANGED <<regulations, accepted>>
       ELSE /\ pc' = "store"
            /\ remaining' = remaining - 1
            /\ regulations' = StoreOne(regulations, rec, level, source_url, now)
            /\ written' =
                 IF branch' \in Writes THEN written \cup {rec["id"]} ELSE written
            /\ replacedLevel' =
                 IF branch' \in Replaces THEN LevelOf(regulations, rec["id"])
                 ELSE ""
            /\ accepted' =
                 IF HasId(rec) THEN accepted \cup {rec["id"]} ELSE accepted
            /\ printed' = PrintOf(branch')
            /\ UNCHANGED <<raised, fetch, level, source_url, now>>
    /\ UNCHANGED <<schema, lastCall>>
    /\ UNCHANGED normVars

\* lines 95-96: commit, close, return; to the keyword loop when a fetch
\* function made the call
StoreEnd ==
    /\ pc = "store"
    /\ remaining = 0
    /\ LeaveStore
    /\ branch' = "none"
    /\ replacedLevel' = ""
    /\ printed' = ""
    /\ IF fetch.source = ""
       THEN pc' = "idle" /\ UNCHANGED fetch
       ELSE pc' = "fetch" /\ fetch' = [fetch EXCEPT !.kw = @ + 1]
    /\ UNCHANGED <<schema, regulations, raised, lastCall, submitted, accepted>>
    /\ UNCHANGED normVars

\* FetchSkip leaving the program as sys.exit does (line 328)
FetchSkipExit(source, key) ==
    /\ pc = "idle"
    /\ key = ""
    /\ printed' = "Skipping " \o source
    /\ raised' = "SystemExit"
    /\ lastCall' = "fetch_" \o source \o "_updates"
    /\ UNCHANGED <<schema, regulations, pc, level, source_url, now, remaining,
                   written, branch, replacedLevel, submitted, accepted, fetch>>
    /\ UNCHANGED normVars

\* fetch_federal_updates / fetch_state_updates, lines 119-121 and 169-171: no
\* key, no request
FetchSkip(source, key) ==
    /\ pc = "idle"
    /\ key = ""
    /\ printed' = "Skipping " \o source
    /\ raised' = ""
    /\ lastCall' = "fetch_" \o source \o "_updates"
    /\ UNCHANGED <<schema, regulations, pc, level, source_url, now, remaining,
                   written, branch, replacedLevel, submitted, accepted, fetch>>
    /\ UNCHANGED normVars

\* lines 122-124 and 172-174: the key is set, the keyword loop starts
FetchBegin(source, key) ==
    /\ pc = "idle"
    /\ key # ""
    /\ pc' = "fetch"
    /\ fetch' = [source |-> source, kw |-> 1]
    /\ printed' = ""
    /\ raised' = ""
    /\ lastCall' = "fetch_" \o source \o "_updates"
    /\ UNCHANGED <<schema, regulations, level, source_url, now, remaining,
                   written, branch, replacedLevel, submitted, accepted>>
    /\ UNCHANGED normVars

\* RequestFails without the handler of lines 138-139: the exception leaves the
\* fetch function
RequestFailsUncaught ==
    /\ pc = "fetch"
    /\ fetch.kw <= NumKeywords
    /\ printed' = ""
    /\ raised' = "RequestException"
    /\ pc' = "idle"
    /\ fetch' = NoFetch
    /\ UNCHANGED <<schema, regulations, level, source_url, now, remaining,
                   written, branch, lastCall, replacedLevel, submitted,
                   accepted>>
    /\ UNCHANGED normVars

\* RequestFails asking again for the same keyword
RequestFailsRetry ==
    /\ pc = "fetch"
    /\ fetch.kw <= NumKeywords
    /\ printed' = "fetch failed"
    /\ UNCHANGED <<schema, regulations, pc, level, source_url, now, remaining,
                   written, branch, raised, lastCall, replacedLevel, submitted,
                   accepted, fetch>>
    /\ UNCHANGED normVars

\* lines 133-134 raise a RequestException; lines 138-139 print it and the loop
\* goes on to the next keyword
RequestFails ==
    /\ pc = "fetch"
    /\ fetch.kw <= NumKeywords
    /\ printed' = "fetch failed"
    /\ fetch' = [fetch EXCEPT !.kw = @ + 1]
    /\ UNCHANGED <<schema, regulations, pc, level, source_url, now, remaining,
                   written, branch, raised, lastCall, replacedLevel, submitted,
                   accepted>>
    /\ UNCHANGED normVars

\* lines 133-137: the response holds n items; they are normalized and handed to
\* store_records with the source's level and base url
RequestOk(t, n) ==
    /\ pc = "fetch"
    /\ fetch.kw <= NumKeywords
    /\ EnterStore(fetch.source, BaseUrl(fetch.source), t, n)
    /\ UNCHANGED <<schema, regulations, lastCall, submitted, accepted, fetch>>
    /\ UNCHANGED normVars

\* the keyword loop is over: the fetch function returns
FetchEnd ==
    /\ pc = "fetch"
    /\ fetch.kw > NumKeywords
    /\ pc' = "idle"
    /\ fetch' = NoFetch
    /\ printed' = ""
    /\ UNCHANGED <<schema, regulations, level, source_url, now, remaining,
                   written, branch, raised, lastCall, replacedLevel, submitted,
                   accepted>>
    /\ UNCHANGED normVars

\* The store on its own: init_db and direct calls of store_records
Next ==
    \/ InitDb /\ UNCHANGED <<aggVars, briefs, seen>>
    \/ \E site \in CallSites, t \in Instants, n \in 0..MaxBatch :
          StoreBegin(site[1], site[2], t, n) /\ UNCHANGED <<aggVars, briefs, seen>>
    \/ \E rec \in Records : StoreStep(rec) /\ UNCHANGED <<aggVars, briefs, seen>>
    \/ StoreEnd /\ UNCHANGED <<aggVars, briefs, seen>>

Spec == Init /\ [][Next]_vars

----------------------------------------------------------------------------
(* The pipeline: SpecRun adds the fetch functions to init_db and to direct  *)
(* calls of store_records                                                   *)

\* The records of SpecRun's direct calls
RunRecords ==
    {[id |-> i, title |-> "T1", source_last_modified |-> m] :
        i \in Ids \cup {""}, m \in {<<1>>, <<2>>}} \cup {[title |-> "T2"]}

\* The records the running store_records call iterates over: the caller's for a
\* direct call, the normalizer's output for a call made by a fetch function.
\* The normalizers map the items one by one, so the record of an item is
\* computed when the loop reaches it.
Incoming == IF fetch.source = "" THEN RunRecords ELSE FetchedRecords(fetch.source)

NextRun ==
    \/ InitDb /\ UNCHANGED <<aggVars, briefs, seen>>
    \/ \E site \in CallSites, t \in Instants, n \in 0..MaxBatch :
          StoreBegin(site[1], site[2], t, n) /\ UNCHANGED <<aggVars, briefs, seen>>
    \/ \E rec \in Incoming : StoreStep(rec) /\ UNCHANGED <<aggVars, briefs, seen>>
    \/ StoreEnd /\ UNCHANGED <<aggVars, briefs, seen>>
    \/ \E source \in Sources, key \in ApiKeys :
          FetchSkip(source, key) /\ UNCHANGED <<aggVars, briefs, seen>>
    \/ \E source \in Sources, key \in ApiKeys :
          FetchBegin(source, key) /\ UNCHANGED <<aggVars, briefs, seen>>
    \/ RequestFails /\ UNCHANGED <<aggVars, briefs, seen>>
    \/ \E t \in Instants, n \in 0..MaxBatch :
          RequestOk(t, n) /\ UNCHANGED <<aggVars, briefs, seen>>
    \/ FetchEnd /\ UNCHANGED <<aggVars, briefs, seen>>

SpecRun == Init /\ [][NextRun]_vars

----------------------------------------------------------------------------
(* The normalizers as functions: SpecNorm draws an input and applies one *)

InitNorm ==
    /\ InitStore
    /\ AggIdle
    /\ normFn \in {"federal", "state"}
    /\ normIn \in IF normFn = "federal" THEN SeqsUpTo(RawFederal, MaxItems)
                  ELSE SeqsUpTo(RawState, MaxItems)
    /\ normOut = <<>>
    /\ normDone = FALSE

NormalizeFederal ==
    /\ normFn = "federal"
    /\ ~normDone
    /\ normOut' = normalize_federal(normIn)
    /\ normDone' = TRUE
    /\ UNCHANGED <<normFn, normIn>>
    /\ UNCHANGED storeVars

NormalizeState ==
    /\ normFn = "state"
    /\ ~normDone
    /\ normOut' = normalize_state(normIn)
    /\ normDone' = TRUE
    /\ UNCHANGED <<normFn, normIn>>
    /\ UNCHANGED storeVars

NextNorm ==
    \/ NormalizeFederal /\ UNCHANGED <<aggVars, briefs, seen>>
    \/ NormalizeState /\ UNCHANGED <<aggVars, briefs, seen>>

SpecNorm == InitNorm /\ [][NextNorm]_vars

----------------------------------------------------------------------------
(* The run: SpecAgg is one call of aggregate_updates (lines 330-334) on a    *)
(* new database file.  The store can fail: any statement of init_db or       *)
(* store_records can raise a sqlite3 error.                                  *)

\* sources, lines 286-287: a selection of VALID_SOURCES
SourceLists ==
    { <<"federal">>, <<"state">>, <<"federal", "state">>, <<"state", "federal">> }

\* FEDERAL_API_KEY and STATE_API_KEY of the process
KeyConfigs == [Sources -> ApiKeys]

NoRequests == [s \in Sources |-> 0]

\* the variables of the run when a call of aggregate_updates starts
AggEnter(state, sources, keys) ==
    /\ agg' = [state |-> state, sources |-> sources, todo |-> sources,
               keys |-> keys]
    /\ requests' = NoRequests
    /\ failed' = {}
    /\ contributed' = {}

\* lines 286-288: aggregate_updates starts and init_db returns
AggBegin(sources, keys) ==
    /\ agg.state = "none"
    /\ InitDb
    /\ AggEnter("running", sources, keys)
    /\ UNCHANGED <<durable, conns>>

\* lines 21-46 raise: a statement of init_db fails, before or after the first
\* CREATE TABLE; nothing catches the error and line 47 is not reached
AggInitDbRaises(sources, keys, created) ==
    /\ agg.state = "none"
    /\ pc = "idle"
    /\ schema' = IF created
                 THEN CreateTableIfNotExists(schema, "regulations",
                                             RegulationsColumns)
                 ELSE schema
    /\ raised' = "OperationalError"
    /\ lastCall' = "init_db"
    /\ printed' = ""
    /\ AggEnter("raised", sources, keys)
    /\ conns' = conns \cup {"init_db"}
    /\ UNCHANGED <<regulations, pc, level, source_url, now, remaining, written,
                   branch, replacedLevel, submitted, accepted, fetch, durable>>
    /\ UNCHANGED normVars

\* lines 289-291: the loop calls the fetch function of the next source, which
\* returns at once without its key (lines 119-121, 169-171) and starts its
\* keyword loop with it
AggFetch ==
    /\ agg.state = "running"
    /\ agg.todo # <<>>
    /\ \/ FetchSkip(Head(agg.todo), agg.keys[Head(agg.todo)])
       \/ FetchBegin(Head(agg.todo), agg.keys[Head(agg.todo)])
    /\ agg' = [agg EXCEPT !.todo = Tail(@)]
    /\ UNCHANGED <<requests, failed, contributed, durable, conns>>

\* lines 133-134 raise a RequestException, lines 138-139 catch it
AggRequestFails ==
    /\ agg.state = "running"
    /\ RequestFails
    /\ requests' = [requests EXCEPT ![fetch.source] = @ + 1]
    /\ failed' = failed \cup {fetch.source}
    /\ UNCHANGED <<agg, contributed, durable, conns>>

\* lines 133-137: the request succeeds and store_records is entered
AggRequestOk(t, n) ==
    /\ agg.state = "running"
    /\ RequestOk(t, n)
    /\ requests' = [requests EXCEPT ![fetch.source] = @ + 1]
    /\ UNCHANGED <<agg, failed, contributed, durable, conns>>

\* lines 60-93: one iteration, inside the transaction that the first INSERT
\* of the call opened
AggStoreStep(rec) ==
    /\ agg.state = "running"
    /\ StoreStep(rec)
    /\ contributed' =
          IF branch' \in Writes THEN contributed \cup {fetch.source}
          ELSE contributed
    /\ agg' = IF raised' = "" THEN agg ELSE [agg EXCEPT !.state = "raised"]
    /\ UNCHANGED <<requests, failed, durable, conns>>

\* StoreRaises caught by the fetch function like a failed request
AggStoreRaisesCaught ==
    /\ agg.state = "running"
    /\ pc = "store"
    /\ pc' = "fetch"
    /\ raised' = ""
    /\ printed' = "fetch failed"
    /\ branch' = "storage_error"
    /\ fetch' = [fetch EXCEPT !.kw = @ + 1]
    /\ LeaveStore
    /\ replacedLevel' = ""
    /\ regulations' = durable
    /\ conns' = conns \cup {"store_records"}
    /\ UNCHANGED <<schema, lastCall, submitted, accepted, agg, requests, failed,
                   contributed, durable>>
    /\ UNCHANGED normVars

\* a statement of store_records raises a sqlite3 error: the SELECT (line 68),
\* the INSERT (line 77) or the commit (line 95).  It is no RequestException, so
\* lines 138 and 185 do not catch it, and aggregate_updates has no handler:
\* the error leaves the run.  Lines 95-96 are not reached: the transaction is
\* never committed and the rows written in the call are lost with it; the
\* connection is not closed.
AggStoreRaises ==
    /\ agg.state = "running"
    /\ pc = "store"
    /\ pc' = "idle"
    /\ raised' = "OperationalError"
    /\ printed' = ""
    /\ branch' = "storage_error"
    /\ fetch' = NoFetch
    /\ LeaveStore
    /\ replacedLevel' = ""
    /\ regulations' = durable
    /\ agg' = [agg EXCEPT !.state = "raised"]
    /\ conns' = conns \cup {"store_records"}
    /\ UNCHANGED <<schema, lastCall, submitted, accepted, requests, failed,
                   contributed, durable>>
    /\ UNCHANGED normVars

\* lines 95-96: the one commit of the call, and close
AggStoreEnd ==
    /\ agg.state = "running"
    /\ StoreEnd
    /\ durable' = regulations
    /\ UNCHANGED <<agg, requests, failed, contributed, conns>>

AggFetchEnd ==
    /\ agg.state = "running"
    /\ FetchEnd
    /\ UNCHANGED aggVars

\* line 292: the loop over the sources is over
AggEnd ==
    /\ agg.state = "running"
    /\ pc = "idle"
    /\ agg.todo = <<>>
    /\ agg' = [agg EXCEPT !.state = "complete"]
    /\ printed' = "Aggregation complete"
    /\ UNCHANGED <<schema, regulations, pc, level, source_url, now, remaining,
                   written, branch, raised, lastCall, replacedLevel, submitted,
                   accepted, fetch>>
    /\ UNCHANGED <<requests, failed, contributed, durable, conns>>
    /\ UNCHANGED normVars

\* the connections left open are closed when the interpreter collects them,
\* which no line of the program decides
Finalize ==
    /\ conns # {}
    /\ conns' = {}
    /\ UNCHANGED <<storeVars, normVars, agg, requests, failed, contributed,
                   durable>>

\* the records the normalizers give for the items of each source
FederalRecords == FetchedRecords("federal")
StateRecords == FetchedRecords("state")
RecordsOf(source) == IF source = "federal" THEN FederalRecords ELSE StateRecords

NextAgg ==
    \/ \E sources \in SourceLists, keys \in KeyConfigs :
          AggBegin(sources, keys) /\ UNCHANGED <<briefs, seen>>
    \/ \E sources \in SourceLists, keys \in KeyConfigs, created \in BOOLEAN :
          AggInitDbRaises(sources, keys, created) /\ UNCHANGED <<briefs, seen>>
    \/ AggFetch /\ UNCHANGED <<briefs, seen>>
    \/ AggRequestFails /\ UNCHANGED <<briefs, seen>>
    \/ \E t \in Instants, n \in 0..MaxBatch :
          AggRequestOk(t, n) /\ UNCHANGED <<briefs, seen>>
    \/ \E rec \in RecordsOf(fetch.source) : AggStoreStep(rec) /\ UNCHANGED <<briefs, seen>>
    \/ AggStoreRaises /\ UNCHANGED <<briefs, seen>>
    \/ AggStoreEnd /\ UNCHANGED <<briefs, seen>>
    \/ AggFetchEnd /\ UNCHANGED <<briefs, seen>>
    \/ AggEnd /\ UNCHANGED <<briefs, seen>>
    \/ Finalize /\ UNCHANGED <<briefs, seen>>

SpecAgg == Init /\ [][NextAgg]_vars

\* The program is one thread and every request has a timeout (lines 133, 180):
\* a run that can take a step takes one.
SpecAggFair == SpecAgg /\ WF_vars(NextAgg)

----------------------------------------------------------------------------
(* The briefs table: SpecBriefs is init_db and the fetch functions, with the *)
(* calls of store_records they make, in a process that also generates       *)
(* briefs (generate_all_briefs, lines 230-273)                               *)

\* sqlite3.connect (lines 21, 56) leaves PRAGMA foreign_keys at its default
ForeignKeys == FALSE

\* line 43: the FOREIGN KEY clause of briefs names no ON DELETE action
OnDelete == "NO ACTION"

\* BriefsAfterReplace with foreign keys enforced and ON DELETE CASCADE
BriefsAfterReplaceCascade(brf, doc_id) ==
    {b \in brf : b.regulation_id # doc_id}

\* the briefs after the INSERT OR REPLACE of line 77 has deleted the row
\* doc_id of regulations and inserted the new one
BriefsAfterReplace(brf, doc_id) ==
    IF ForeignKeys /\ OnDelete = "CASCADE"
    THEN {b \in brf : b.regulation_id # doc_id}
    ELSE brf

\* lines 36-45, CREATE TABLE IF NOT EXISTS briefs: a table that exists keeps
\* its rows
BriefsAfterInitDb(sch, brf) == IF "briefs" \in DOMAIN sch THEN brf ELSE {}

\* lines 256-266: the row of a brief
BriefRow(doc_id, t) ==
    [regulation_id |-> doc_id,
     business_impact |-> "impact",
     action_required |-> "action",
     penalty |-> "Not specified",
     generated_at |-> Isoformat(t)]

\* lines 236-241: the ids of the regulations without a brief
WithoutBrief(tbl, brf) ==
    {r.id : r \in tbl} \ {b.regulation_id : b \in brf}

\* generate_all_briefs, lines 244-269: one iteration that stores the brief of
\* a regulation that has none
GenerateBrief(doc_id, t) ==
    /\ pc = "idle"
    /\ {"regulations", "briefs"} \subseteq DOMAIN schema
    /\ doc_id \in WithoutBrief(regulations, briefs)
    /\ briefs' = briefs \cup {BriefRow(doc_id, t)}
    /\ lastCall' = "generate_all_briefs"
    /\ printed' = "Brief generated"
    /\ raised' = ""
    /\ UNCHANGED <<schema, regulations, pc, level, source_url, now, remaining,
                   written, branch, replacedLevel, submitted, accepted, fetch>>
    /\ UNCHANGED <<normVars, aggVars, seen>>

BriefsInitDb ==
    /\ InitDb
    /\ briefs' = BriefsAfterInitDb(schema, briefs)
    /\ UNCHANGED <<aggVars, seen>>

BriefsStoreStep(rec) ==
    /\ StoreStep(rec)
    /\ briefs' = IF branch' \in Replaces
                 THEN BriefsAfterReplace(briefs, rec["id"])
                 ELSE briefs
    /\ UNCHANGED <<aggVars, seen>>

NextBriefs ==
    \/ BriefsInitDb
    \/ \E rec \in RecordsOf(fetch.source) : BriefsStoreStep(rec)
    \/ StoreEnd /\ UNCHANGED <<aggVars, briefs, seen>>
    \/ \E source \in Sources, key \in ApiKeys :
          FetchSkip(source, key) /\ UNCHANGED <<aggVars, briefs, seen>>
    \/ \E source \in Sources, key \in ApiKeys :
          FetchBegin(source, key) /\ UNCHANGED <<aggVars, briefs, seen>>
    \/ RequestFails /\ UNCHANGED <<aggVars, briefs, seen>>
    \/ \E t \in Instants, n \in 0..MaxBatch :
          RequestOk(t, n) /\ UNCHANGED <<aggVars, briefs, seen>>
    \/ FetchEnd /\ UNCHANGED <<aggVars, briefs, seen>>
    \/ \E doc_id \in Ids, t \in Instants : GenerateBrief(doc_id, t)

SpecBriefs == Init /\ [][NextBriefs]_vars

----------------------------------------------------------------------------
(* What the records call for: SpecSeen is Spec with a memory of the records  *)
(* each id has been stored from                                              *)

\* the row of a record, as lines 77-92 write it
SeenRow(rec, lv, url, t) ==
    [id |-> rec["id"],
     level |-> lv,
     title |-> Get(rec, "title", ""),
     description |-> Get(rec, "description", ""),
     published_date |-> Get(rec, "published_date", <<>>),
     full_text |-> Get(rec, "full_text", ""),
     source_url |-> url,
     source_last_modified |-> SourceMod(rec),
     last_updated |-> Isoformat(t)]

\* an id for which a record without a marker has come
Unmarked == [max |-> <<>>, clean |-> FALSE, first |-> NoKeys]

\* the memory after an iteration of lines 60-93 on a record with an id: the
\* greatest marker so far and the row of the first record that carried it,
\* as long as every record of the id has carried a marker
SeenAfter(sn, rec, lv, url, t) ==
    LET doc_id == rec["id"]
        m == SourceMod(rec)
        entry ==
            IF m = <<>> THEN Unmarked
            ELSE IF doc_id \notin DOMAIN sn
                 THEN [max |-> m, clean |-> TRUE, first |-> SeenRow(rec, lv, url, t)]
            ELSE IF ~sn[doc_id].clean THEN Unmarked
            ELSE IF StrLess(sn[doc_id].max, m)
                 THEN [max |-> m, clean |-> TRUE, first |-> SeenRow(rec, lv, url, t)]
            ELSE sn[doc_id]
    IN  [k \in (DOMAIN sn) \cup {doc_id} |-> IF k = doc_id THEN entry ELSE sn[k]]

\* The records of SpecSeen's calls: those of the federal id, with every
\* marker and both contents, and one without an id
SeenRecords ==
    {rec \in Records : "id" \in DOMAIN rec /\ rec["id"] = "FED-1"}
    \cup {[title |-> "T2"]}

SeenStoreStep(rec) ==
    /\ StoreStep(rec)
    /\ seen' = IF HasId(rec) /\ branch' # "no_table"
               THEN SeenAfter(seen, rec, level, source_url, now)
               ELSE seen
    /\ UNCHANGED <<aggVars, briefs>>

NextSeen ==
    \/ InitDb /\ UNCHANGED <<aggVars, briefs, seen>>
    \/ \E site \in CallSites, t \in Instants, n \in 0..MaxBatch :
          StoreBegin(site[1], site[2], t, n) /\ UNCHANGED <<aggVars, briefs, seen>>
    \/ \E rec \in SeenRecords : SeenStoreStep(rec)
    \/ StoreEnd /\ UNCHANGED <<aggVars, briefs, seen>>

SpecSeen == Init /\ [][NextSeen]_vars

----------------------------------------------------------------------------
(* State items without their identifying fields: SpecBare is init_db and     *)
(* fetch_state_updates on responses with such items                          *)

\* The items of the responses: without 'result', with an empty 'result', with
\* neither session nor print number but a title and an action date, and one
\* whole bill
BareItems ==
    { NoKeys,
      [result |-> NoKeys],
      [result |-> [title |-> "Untitled",
                   status |-> [dict |-> [actionDate |-> <<1>>]]]],
      [result |-> [title |-> "Other",
                   status |-> [dict |-> [actionDate |-> <<2>>]]]],
      [result |-> [basePrintNo |-> "S1", session |-> "2025", title |-> "Bill",
                   status |-> [dict |-> [actionDate |-> <<1>>]]]] }

\* line 183: the records normalize_state gives for them
BareRecords == {normalize_state(<<i>>)[1] : i \in BareItems}

NextBare ==
    \/ InitDb /\ UNCHANGED <<aggVars, briefs, seen>>
    \/ \E key \in ApiKeys :
          FetchSkip("state", key) /\ UNCHANGED <<aggVars, briefs, seen>>
    \/ \E key \in ApiKeys :
          FetchBegin("state", key) /\ UNCHANGED <<aggVars, briefs, seen>>
    \/ RequestFails /\ UNCHANGED <<aggVars, briefs, seen>>
    \/ \E t \in Instants, n \in 0..MaxBatch :
          RequestOk(t, n) /\ UNCHANGED <<aggVars, briefs, seen>>
    \/ \E rec \in BareRecords : StoreStep(rec) /\ UNCHANGED <<aggVars, briefs, seen>>
    \/ StoreEnd /\ UNCHANGED <<aggVars, briefs, seen>>
    \/ FetchEnd /\ UNCHANGED <<aggVars, briefs, seen>>

SpecBare == Init /\ [][NextBare]_vars

----------------------------------------------------------------------------
(* Vocabulary of the properties *)

CanonicalKeys ==
    {"id", "title", "description", "published_date", "full_text",
     "source_last_modified"}

\* the records that carry a non-empty id
WithId == {rec \in Records : "id" \in DOMAIN rec /\ rec["id"] # ""}
WithoutId == Records \ WithId

\* the incoming marker of a record, empty when the key is absent
MarkerIn(rec) ==
    IF "source_last_modified" \in DOMAIN rec THEN rec["source_last_modified"]
    ELSE <<>>

Field(rec, key, empty) == IF key \in DOMAIN rec THEN rec[key] ELSE empty

\* the row that holds the whole of a record, written by a call with this level
\* and url at this instant
WholeRow(rec, lv, url, t) ==
    [id |-> rec["id"], level |-> lv, source_url |-> url,
     title |-> Field(rec, "title", ""),
     description |-> Field(rec, "description", ""),
     published_date |-> Field(rec, "published_date", <<>>),
     full_text |-> Field(rec, "full_text", ""),
     source_last_modified |-> MarkerIn(rec),
     last_updated |-> <<t>>]

RowsOf(tbl, doc_id) == {r \in tbl : r.id = doc_id}
HasRow(tbl, doc_id) == RowsOf(tbl, doc_id) # {}
RowOf(tbl, doc_id) == CHOOSE r \in tbl : r.id = doc_id
StoredIds == {r.id : r \in regulations}

StrLeq(s, t) == s = t \/ StrLess(s, t)

\* the loop of the running call is about to iterate, and the table exists
AtIteration == pc = "store" /\ remaining > 0 /\ "regulations" \in DOMAIN schema

\* the table after the running call's next iteration, were it on record rec
After(rec) == StoreOne(regulations, rec, level, source_url, now)

\* two calls in a row with the one record rec, the first now and the second at
\* instant t2: the table after the first and after the second
Twice(rec, t2) ==
    LET first == After(rec)
    IN  [first |-> first,
         second |-> StoreOne(first, rec, level, source_url, t2)]

----------------------------------------------------------------------------
(* C1 *)

\* C1 as stated: for a record with a non-empty id and ANY source_last_modified,
\* two calls in a row with that record leave one row for the id, the same in
\* every column after the second call as after the first.
C1_AnyMarker ==
    AtIteration =>
        \A rec \in WithId : \A t2 \in Instants :
            /\ Cardinality(RowsOf(Twice(rec, t2).second, rec["id"])) = 1
            /\ Twice(rec, t2).second = Twice(rec, t2).first

\* C1 amended: the same for a record whose source_last_modified is non-empty.
\* (With an empty marker the second call writes the row again, and last_updated
\* becomes the second call's timestamp.)
C1_Idempotent ==
    AtIteration =>
        \A rec \in WithId : \A t2 \in Instants :
            MarkerIn(rec) # <<>> =>
                /\ Cardinality(RowsOf(Twice(rec, t2).second, rec["id"])) = 1
                /\ Twice(rec, t2).second = Twice(rec, t2).first

\* a record whose marker equals the stored one, from the same level and url, has
\* just been skipped
C1_Witness ==
    /\ pc = "store"
    /\ branch = "skip_same"
    /\ \E r \in regulations :
          /\ r.level = level
          /\ r.source_url = source_url
          /\ r.source_last_modified # <<>>

----------------------------------------------------------------------------
(* C2 *)

\* C2: with a row stored under a non-empty marker S, a record for that id with a
\* non-empty marker M <= S leaves the table as it is, every column of the row
\* included; and a stored row is written over only when M > S, or S is empty, or
\* M is empty.
C2_StaleRejection ==
    AtIteration =>
        \A rec \in WithId :
            HasRow(regulations, rec["id"]) =>
                LET S == RowOf(regulations, rec["id"]).source_last_modified
                    M == MarkerIn(rec)
                    rewritten ==
                        \/ BranchOf(schema, regulations, rec) \in Replaces
                        \/ After(rec) # regulations
                IN  /\ (S # <<>> /\ M # <<>> /\ StrLeq(M, S)) =>
                            /\ After(rec) = regulations
                            /\ BranchOf(schema, regulations, rec) \in Skips
                    /\ rewritten => (StrLess(S, M) \/ S = <<>> \/ M = <<>>)

\* a record older than the stored row has just been skipped
C2_Witness ==
    /\ pc = "store"
    /\ branch = "skip_older"
    /\ printed = "Skipping"

----------------------------------------------------------------------------
(* C3 *)

\* the record rec is for an id that an earlier call stored under a non-empty
\* marker, and its own marker is strictly greater
NewerThanStored(rec) ==
    /\ rec["id"] \notin written
    /\ HasRow(regulations, rec["id"])
    /\ RowOf(regulations, rec["id"]).source_last_modified # <<>>
    /\ MarkerIn(rec) # <<>>
    /\ StrLess(RowOf(regulations, rec["id"]).source_last_modified, MarkerIn(rec))

\* C3 as stated: the row after the second call is the second record's, whole,
\* and its last_updated is strictly later than the one the first call wrote.
C3_StrictlyLater ==
    AtIteration =>
        \A rec \in WithId :
            NewerThanStored(rec) =>
                /\ RowsOf(After(rec), rec["id"]) =
                       {WholeRow(rec, level, source_url, now)}
                /\ StrLess(RowOf(regulations, rec["id"]).last_updated,
                           RowOf(After(rec), rec["id"]).last_updated)

\* C3 amended: the row after the second call is the second record's, whole, with
\* the second call's level and source_url, and its last_updated is the timestamp
\* the second call read.  (It is later than the first call's only if the local
\* clock read later.)
C3_Freshness ==
    AtIteration =>
        \A rec \in WithId :
            NewerThanStored(rec) =>
                RowsOf(After(rec), rec["id"]) =
                    {WholeRow(rec, level, source_url, now)}

\* the first iteration of a call has just replaced a row of an earlier call by a
\* record with a newer marker
C3_Witness ==
    /\ pc = "store"
    /\ branch = "replace_newer"
    /\ remaining = MaxBatch - 1
    /\ \E r \in regulations : r.id \in written /\ r.last_updated = <<now>>

----------------------------------------------------------------------------
(* C4 *)

\* C4: a record whose marker is empty or absent overwrites the row of its id
\* whatever marker is stored, and any record overwrites a row whose stored
\* marker is empty; the row afterwards is the incoming record.
C4_EmptyMarker ==
    AtIteration =>
        \A rec \in WithId :
            ( /\ HasRow(regulations, rec["id"])
              /\ \/ MarkerIn(rec) = <<>>
                 \/ RowOf(regulations, rec["id"]).source_last_modified = <<>> ) =>
                /\ RowsOf(After(rec), rec["id"]) =
                       {WholeRow(rec, level, source_url, now)}
                /\ BranchOf(schema, regulations, rec) \in Replaces

\* a record with an empty marker has just replaced a row stored under a
\* non-empty one
C4_Witness ==
    /\ pc = "store"
    /\ branch = "replace_incoming_empty"
    /\ \E r \in regulations : r.id \in written /\ r.source_last_modified = <<>>

----------------------------------------------------------------------------
(* C5 *)

\* C5: a record whose id is absent or empty takes the continue of line 63
\* whatever the state of the store (even without the table), and that iteration
\* writes no row, raises nothing and changes nothing but the loop's position:
\* the records before and after it are processed as if it were not there.
C5_MissingIdSkip ==
    /\ [](\A rec \in WithoutId :
            /\ BranchOf(schema, regulations, rec) = "no_id"
            /\ After(rec) = regulations)
    /\ [][branch' = "no_id" =>
            /\ pc = "store" /\ pc' = "store"
            /\ remaining' = remaining - 1
            /\ UNCHANGED <<schema, regulations, level, source_url, now, written,
                           raised, submitted, accepted, fetch>>]_vars

\* a record without an id has just been passed over, after a record of the same
\* batch was written and with a record of the batch still to come
C5_Witness ==
    /\ pc = "store"
    /\ branch = "no_id"
    /\ written # {}
    /\ remaining > 0
    /\ raised = ""

----------------------------------------------------------------------------
(* C6 *)

\* C6: every row that a step leaves in the table is either a row that was there
\* before the step, or the whole of an incoming record (absent fields as empty
\* strings) with the running call's level, source_url and timestamp; no row
\* mixes the columns of two versions.
C6_NoPartialUpdate ==
    [][\A q \in regulations' :
          \/ q \in regulations
          \/ /\ pc = "store"
             /\ \E rec \in WithId : q = WholeRow(rec, level, source_url, now)]_vars

\* a record with absent fields has just replaced a row that an earlier call
\* wrote, and the absent fields are stored as empty strings
C6_Witness ==
    /\ pc = "store"
    /\ branch \in Replaces
    /\ remaining = MaxBatch - 1
    /\ \E r \in regulations :
          /\ r.id \in written
          /\ r.title = "T2"
          /\ r.description = ""
          /\ r.published_date = <<>>
          /\ r.full_text = ""

----------------------------------------------------------------------------
(* C7 *)

\* C7 as stated: the level of the row of an id never changes.
C7_LevelNeverChanges ==
    [][\A r \in regulations : \A q \in regulations' :
          q.id = r.id => q.level = r.level]_vars

\* C7 amended: every row a call writes carries that call's level, and the level
\* of a stored row changes only when a call with another level writes the id;
\* a call that skips the id, or that has the same level, leaves the level.
C7_LevelOfLastWriter ==
    [][/\ \A q \in regulations' \ regulations : pc = "store" /\ q.level = level
       /\ \A r \in regulations : \A q \in regulations' :
             (q.id = r.id /\ q.level # r.level) =>
                 /\ pc = "store"
                 /\ branch' \in Replaces
                 /\ r.level # level
                 /\ q.level = level]_vars

\* a call has just replaced a row that carried the other level
C7_Witness ==
    /\ pc = "store"
    /\ branch \in Replaces
    /\ replacedLevel # ""
    /\ replacedLevel # level
    /\ \E r \in regulations : r.id \in written /\ r.level = level

----------------------------------------------------------------------------
(* C8 *)

----------------------------------------------------------------------------
(* C9 *)

\* C9: init_db can be called in every state in which the program is idle, it
\* never raises, it creates the regulations table when that is absent, and when
\* the table exists it leaves its definition and every stored row as they are.
C9_InitDbIdempotent ==
    /\ [](pc = "idle" => ENABLED InitDb)
    /\ [][(pc = "idle" /\ pc' = "idle") =>
            /\ lastCall' = "init_db"
            /\ raised' = ""
            /\ "regulations" \in DOMAIN schema'
            /\ regulations' = regulations
            /\ IF "regulations" \in DOMAIN schema
               THEN schema' = schema
               ELSE schema'["regulations"] = RegulationsColumns]_vars

\* init_db has just run on a store that holds rows
C9_Witness ==
    /\ pc = "idle"
    /\ lastCall = "init_db"
    /\ raised = ""
    /\ Cardinality(regulations) = 2

----------------------------------------------------------------------------
(* C10 *)

\* C10: both normalizers give, for n items, n records in the order of the items
\* (none for no item), each with the six canonical keys and no other.
C10_NormalizerTotality ==
    normDone =>
        /\ Len(normOut) = Len(normIn)
        /\ normIn = <<>> => normOut = <<>>
        /\ \A i \in 1..Len(normOut) : DOMAIN normOut[i] = CanonicalKeys
        /\ \A i \in 1..Len(normIn) :
              i <= Len(normOut) =>
                IF normFn = "federal"
                THEN normOut[i]["title"] =
                        Field(Field(normIn[i], "attributes", NoKeys), "title", "")
                ELSE normOut[i]["description"] =
                        Field(Field(normIn[i], "result", NoKeys), "summary", "")

\* normalize_federal has run on MaxItems items, one of them without attributes
\* and the others with different titles
C10_Witness ==
    /\ normDone
    /\ normFn = "federal"
    /\ Len(normIn) = MaxItems
    /\ Len(normOut) = MaxItems
    /\ \E i \in 1..MaxItems : "attributes" \notin DOMAIN normIn[i]
    /\ \E i, j \in 1..MaxItems : normOut[i]["title"] # normOut[j]["title"]

----------------------------------------------------------------------------
(* C11 *)

\* the key is in the dict with a value other than the empty one
PresentIn(d, key, empty) == key \in DOMAIN d /\ d[key] # empty

\* C11: for every raw item normalize_federal takes id from
\* attributes.documentId when that is present and non-empty and else from the
\* item's own id, description from attributes.summary and else from
\* attributes.abstract, source_last_modified from attributes.lastModifiedDate
\* and else from attributes.postedDate, title from attributes.title and
\* published_date from attributes.postedDate.
C11_FederalPriority ==
    (normDone /\ normFn = "federal") =>
        /\ Len(normOut) = Len(normIn)
        /\ \A i \in 1..Len(normIn) :
              i <= Len(normOut) =>
                LET item == normIn[i]
                    attrs == Field(item, "attributes", NoKeys)
                    out == normOut[i]
                IN  /\ out["id"] =
                          IF PresentIn(attrs, "documentId", "")
                          THEN attrs["documentId"] ELSE Field(item, "id", "")
                    /\ out["description"] =
                          IF PresentIn(attrs, "summary", "")
                          THEN attrs["summary"] ELSE Field(attrs, "abstract", "")
                    /\ out["source_last_modified"] =
                          IF PresentIn(attrs, "lastModifiedDate", <<>>)
                          THEN attrs["lastModifiedDate"]
                          ELSE Field(attrs, "postedDate", <<>>)
                    /\ out["title"] = Field(attrs, "title", "")
                    /\ out["published_date"] = Field(attrs, "postedDate", <<>>)

\* normalize_federal has run on an item whose documentId, summary and
\* lastModifiedDate are present and empty: each field came from its fallback
C11_Witness ==
    /\ normDone
    /\ normFn = "federal"
    /\ \E i \in 1..Len(normIn) :
          /\ "attributes" \in DOMAIN normIn[i]
          /\ {"documentId", "summary", "lastModifiedDate"}
                \subseteq DOMAIN normIn[i]["attributes"]
          /\ normIn[i]["attributes"]["documentId"] = ""
          /\ normOut[i]["id"] = "FALLBACK-ID"
          /\ normOut[i]["description"] = "An abstract"
          /\ normOut[i]["source_last_modified"] = <<1, 1>>

----------------------------------------------------------------------------
(* normalize_state on the items of its tests: SpecLaw draws items of the    *)
(* shape of test_normalize_state_extracts_fields and                        *)
(* test_normalize_state_falls_back_to_string_id, with any of the fields     *)
(* absent, and applies normalize_state                                      *)

\* the id of an item: a mapping with lawId and activeDate, or a plain string
LawIds ==
    { [dict |-> [lawId |-> "ABC", activeDate |-> "2026-01-10"]],
      [str |-> "FALLBACK"] }

LawItems ==
    {Merge(i, Merge(c, Merge(s, d))) :
        i \in {NoKeys} \cup {[id |-> x] : x \in LawIds},
        c \in {NoKeys, [contentType |-> "LAW"]},
        s \in {NoKeys, [sourceId |-> "20260110.UPDATE"]},
        d \in {NoKeys, [sourceDateTime |-> <<1>>]}}

InitLaw ==
    /\ InitStore
    /\ AggIdle
    /\ normFn = "state"
    /\ normIn \in SeqsUpTo(LawItems, MaxItems)
    /\ normOut = <<>>
    /\ normDone = FALSE

NextLaw == NormalizeState /\ UNCHANGED <<aggVars, briefs, seen>>

SpecLaw == InitLaw /\ [][NextLaw]_vars

----------------------------------------------------------------------------
(* C12 *)

\* the item has the four fields of the test's item, its id a mapping
IsLawItem(item) ==
    /\ {"id", "contentType", "sourceId", "sourceDateTime"} \subseteq DOMAIN item
    /\ IsDict(item["id"])

\* the ids of the form nys-a-b, a or b a field of the item or empty, that hold
\* the string s
IdsHolding(s) == {"nys-" \o s \o "-", "nys--" \o s, "nys-" \o s \o "-" \o s}

\* C12: normalize_state builds a record from the item's own fields: for an id
\* that is a mapping with lawId L and activeDate D the record's id is nys-L-D,
\* its title is the contentType, a space and L, its description is the sourceId
\* and its source_last_modified is the sourceDateTime; for an id that is a
\* plain string the record's id holds that string.
C12_StateMappingOfTests ==
    (normDone /\ normFn = "state") =>
        /\ Len(normOut) = Len(normIn)
        /\ \A i \in 1..Len(normIn) :
              i <= Len(normOut) =>
                LET item == normIn[i]
                    out == normOut[i]
                IN  /\ IsLawItem(item) =>
                          /\ out["id"] =
                                "nys-" \o item["id"].dict["lawId"] \o "-"
                                       \o item["id"].dict["activeDate"]
                          /\ out["title"] =
                                item["contentType"] \o " "
                                       \o item["id"].dict["lawId"]
                          /\ out["description"] = item["sourceId"]
                          /\ out["source_last_modified"] = item["sourceDateTime"]
                    /\ ("id" \in DOMAIN item /\ ~IsDict(item["id"])) =>
                          out["id"] \in IdsHolding(item["id"].str)

----------------------------------------------------------------------------
(* C13 *)

\* the (session, print number) pair of an item, an absent field read as ''
PairOf(item) ==
    <<Field(Field(item, "result", NoKeys), "session", ""),
      Field(Field(item, "result", NoKeys), "basePrintNo", "")>>

\* the sessions and print numbers of Bills that hold the separator '-'
Hyphenated == {"A-1", "2025-A"}
HyphenFree(pair) == pair[1] \notin Hyphenated /\ pair[2] \notin Hyphenated

\* C13 as stated: two items have the same canonical id if and only if they have
\* the same (session, print number) pair.
C13_SameIdIffSamePair ==
    (normDone /\ normFn = "state" /\ Len(normOut) = Len(normIn)) =>
        \A i, j \in 1..Len(normIn) :
            (normOut[i]["id"] = normOut[j]["id"]) <=>
                (PairOf(normIn[i]) = PairOf(normIn[j]))

\* C13 amended: the canonical id is 'nys', the session and the print number
\* joined by '-'; two items with the same pair have the same id whatever their
\* other fields, and two items with the same id have the same pair when neither
\* session nor print number holds a '-'.
C13_CompositeId ==
    (normDone /\ normFn = "state") =>
        /\ Len(normOut) = Len(normIn)
        /\ \A i \in 1..Len(normIn) :
              i <= Len(normOut) =>
                normOut[i]["id"] =
                    "nys-" \o PairOf(normIn[i])[1] \o "-" \o PairOf(normIn[i])[2]
        /\ \A i, j \in 1..Len(normIn) :
              (i <= Len(normOut) /\ j <= Len(normOut)) =>
                /\ PairOf(normIn[i]) = PairOf(normIn[j]) =>
                      normOut[i]["id"] = normOut[j]["id"]
                /\ ( /\ normOut[i]["id"] = normOut[j]["id"]
                     /\ HyphenFree(PairOf(normIn[i]))
                     /\ HyphenFree(PairOf(normIn[j])) ) =>
                      PairOf(normIn[i]) = PairOf(normIn[j])

\* normalize_state has run on two items of one pair that differ in their other
\* fields, and gave them one id
C13_Witness ==
    /\ normDone
    /\ normFn = "state"
    /\ Len(normIn) = 2
    /\ normIn[1] # normIn[2]
    /\ PairOf(normIn[1]) = <<"2025", "S1">>
    /\ PairOf(normIn[2]) = <<"2025", "S1">>
    /\ normOut[1]["id"] = "nys-2025-S1"
    /\ normOut[2]["id"] = "nys-2025-S1"
    /\ normOut[1]["title"] # normOut[2]["title"]

----------------------------------------------------------------------------
(* C14 *)

\* the keys of the sub-mapping (attributes or result) from which each field of
\* a record is read; the id of a federal record is also read from the item
SourcesOf(fn, field) ==
    IF fn = "federal"
    THEN CASE field = "id" -> {"documentId"}
           [] field = "title" -> {"title"}
           [] field = "description" -> {"summary", "abstract"}
           [] field = "published_date" -> {"postedDate"}
           [] field = "source_last_modified" -> {"lastModifiedDate", "postedDate"}
    ELSE CASE field = "id" -> {"session", "basePrintNo"}
           [] field = "title" -> {"basePrintNo", "title"}
           [] field = "description" -> {"summary"}
           [] field = "published_date" -> {"status"}
           [] field = "source_last_modified" -> {"status"}

\* none of the sources of the field is in the item
SourcesAbsent(fn, item, field) ==
    LET sub == Field(item, IF fn = "federal" THEN "attributes" ELSE "result",
                     NoKeys)
    IN  /\ SourcesOf(fn, field) \cap DOMAIN sub = {}
        /\ (fn = "federal" /\ field = "id") => "id" \notin DOMAIN item

\* the empty string of the field: dates and markers are character sequences
EmptyOf(field) ==
    IF field \in {"published_date", "source_last_modified"} THEN <<>> ELSE ""

\* C14: on items with any of the optional fields absent, the sub-mapping
\* included, both normalizers run to the end without an error and give one
\* record per item with the six fields, and a field is the empty string when
\* the sources of the field are absent (full_text, the serialization of the
\* sub-mapping, is left out of the last part).
C14_MissingFieldsTolerated ==
    /\ ~normDone => ENABLED NextNorm
    /\ normDone =>
          /\ raised = ""
          /\ Len(normOut) = Len(normIn)
          /\ \A i \in 1..Len(normIn) :
                i <= Len(normOut) =>
                    /\ DOMAIN normOut[i] = CanonicalKeys
                    /\ \A field \in CanonicalKeys \ {"full_text"} :
                          SourcesAbsent(normFn, normIn[i], field) =>
                              normOut[i][field] = EmptyOf(field)

----------------------------------------------------------------------------
(* The run of aggregate_updates: SpecAgg *)

\* the next source of the loop has no API key
NextSourceWithoutKey ==
    /\ agg.state = "running"
    /\ pc = "idle"
    /\ agg.todo # <<>>
    /\ agg.keys[Head(agg.todo)] = ""

\* the step that skips the source: no request, no row, no error, and the run
\* is still running with exactly the later sources left
C15_MissingKeyStep ==
    [][ (NextSourceWithoutKey /\ agg' # agg) =>
            /\ requests' = requests
            /\ regulations' = regulations
            /\ durable' = durable
            /\ raised' = ""
            /\ pc' = "idle"
            /\ fetch' = NoFetch
            /\ lastCall' = "fetch_" \o Head(agg.todo) \o "_updates"
            /\ agg' = [agg EXCEPT !.todo = Tail(@)] ]_vars

\* C15: the fetch of a source whose API key is not set issues no request,
\* writes no row and raises no error, and aggregate_updates goes on with the
\* sources after it: the skip is always possible, it leaves the run running
\* with the later sources still to fetch, and a run that has ended has no
\* source left.
C15_MissingKeyNonFatal ==
    /\ [](NextSourceWithoutKey => ENABLED AggFetch)
    /\ C15_MissingKeyStep
    /\ [](agg.state = "complete" => agg.todo = <<>>)

\* federal had no key and was skipped without a request; the run went on to
\* state, which has its key, and ended
C15_Witness ==
    /\ agg.state = "complete"
    /\ agg.sources = <<"federal", "state">>
    /\ agg.keys["federal"] = ""
    /\ agg.keys["state"] # ""
    /\ requests["federal"] = 0
    /\ requests["state"] = NumKeywords
    /\ "state" \in contributed
    /\ raised = ""

\* the step of a failed request: nothing is raised, the fetch function keeps
\* running, the run and the store are as before
C16_FailureStep ==
    [][ failed' # failed =>
            /\ raised' = ""
            /\ pc' = "fetch"
            /\ fetch'.source = fetch.source
            /\ agg' = agg
            /\ regulations' = regulations ]_vars

\* a source leaves the list of the run only by the call of its fetch function
C16_EverySourceCalled ==
    [][ (agg.state = "running" /\ agg'.todo # agg.todo) =>
            /\ agg'.todo = Tail(agg.todo)
            /\ lastCall' = "fetch_" \o Head(agg.todo) \o "_updates" ]_vars

\* C16: a failed request (timeout, status, request exception) never leaves
\* the fetch function of its source, and aggregate_updates still calls the
\* fetch function of every later source and reaches its end: after a failed
\* request the run completes with no source left, and the one thing that
\* ends a run before that is an error of the store.
C16_TransportContained ==
    /\ C16_FailureStep
    /\ C16_EverySourceCalled
    /\ [](agg.state = "raised" => raised = "OperationalError")
    /\ [](raised \in {"", "OperationalError"})
    /\ (failed # {}) ~> (agg.state = "complete" \/ raised = "OperationalError")

\* every request of federal failed; the run went on to state, stored rows
\* from it and completed
C16_Witness ==
    /\ agg.state = "complete"
    /\ agg.sources = <<"federal", "state">>
    /\ failed = {"federal"}
    /\ requests["federal"] = NumKeywords
    /\ "federal" \notin contributed
    /\ "state" \in contributed

\* C17: when a request of a source has failed in a run, no further request
\* is issued for that source and the run writes no row from that source.
C17_FailedSourceContributesNothing ==
    /\ [][ \A s \in failed : requests'[s] = requests[s] ]_vars
    /\ [](failed \cap contributed = {})

\* the step at which the store raises: the error is not caught, it leaves
\* store_records, the fetch function and aggregate_updates, with the sources
\* not yet fetched still in the list
C18_StorageErrorStep ==
    [][ (branch' = "storage_error" \/ raised' = "OperationalError") =>
            /\ raised' = "OperationalError"
            /\ agg'.state = "raised"
            /\ pc' = "idle"
            /\ fetch' = NoFetch
            /\ printed' # "Aggregation complete"
            /\ agg'.todo = IF agg.state = "none" THEN agg'.sources ELSE agg.todo
       ]_vars

\* C18: an error raised by the store in init_db or in store_records is caught
\* by nothing: it ends the run, and after it no source is fetched, no request
\* is issued and no row is written.
C18_StorageFailureFatal ==
    /\ C18_StorageErrorStep
    /\ [][ agg.state = "raised" =>
              UNCHANGED <<agg, requests, regulations, durable, pc, fetch,
                          lastCall, printed, raised>> ]_vars
    /\ [](agg.state = "raised" => ~ENABLED AggFetch /\ ~ENABLED AggEnd)

\* the store raised during the fetch of federal: the run is over, state has
\* its key and was never fetched
C18_Witness ==
    /\ agg.state = "raised"
    /\ raised = "OperationalError"
    /\ branch = "storage_error"
    /\ agg.sources = <<"federal", "state">>
    /\ agg.todo = <<"state">>
    /\ agg.keys["state"] # ""
    /\ requests["state"] = 0

\* C19: when the store raises while store_records is at the k-th record of a
\* batch, the rows written for the records before it in that batch are
\* persisted: they are in the store after the error.
C19_PerRecordAtomicity ==
    [][ (pc = "store" /\ branch' = "storage_error") =>
            \A r \in regulations :
                r.id \in written => (r \in regulations' /\ r \in durable') ]_vars

\* C20: after init_db or store_records has returned or raised, the connection
\* it opened is released: no state of a run, the states after a storage error
\* included, has a function that ended with its connection left open.
C20_ConnectionReleased == conns = {}

\* the sources of the selection
Selected == {agg.sources[i] : i \in DOMAIN agg.sources}

\* the requests of the run, all sources together
TotalRequests == requests["federal"] + requests["state"]

\* the requests of the source being fetched are the keywords done so far, the
\* one whose response is being stored included
C21_OneRequestPerKeyword ==
    /\ (agg.state = "running" /\ pc = "fetch") =>
          requests[fetch.source] = Min(fetch.kw, NumKeywords + 1) - 1
    /\ (agg.state = "running" /\ pc = "store") =>
          requests[fetch.source] = fetch.kw
    /\ \A s \in Sources : requests[s] <= NumKeywords
    /\ \A s \in Sources \ Selected : requests[s] = 0
    /\ TotalRequests <= Len(agg.sources) * NumKeywords

\* C21: no request is repeated, whether it succeeded or failed: every request
\* is for the next keyword of its source, a run issues at most
\* |selected sources| x |SEARCH_KEYWORDS| requests, and a run whose requests
\* all return or fail comes to its end, which is line 292 unless the store
\* raised.
C21_NoRetriesAndCompletion ==
    /\ []C21_OneRequestPerKeyword
    /\ [][ requests' # requests =>
              /\ pc = "fetch"
              /\ requests' = [requests EXCEPT ![fetch.source] = fetch.kw] ]_vars
    /\ [](agg.state = "complete" => printed = "Aggregation complete")
    /\ (agg.state = "running") ~>
          (agg.state = "complete" \/ raised = "OperationalError")

\* a run over both sources that made every request once, one of them failed,
\* and completed
C21_Witness ==
    /\ agg.state = "complete"
    /\ printed = "Aggregation complete"
    /\ Len(agg.sources) = 2
    /\ TotalRequests = 2 * NumKeywords
    /\ failed = {"state"}
    /\ contributed = {"federal", "state"}

----------------------------------------------------------------------------
(* The notifications of store_records: Spec *)

\* a step of the loop of lines 60-93 that ends the iteration on one record
RecordStep == pc = "store" /\ remaining' = remaining - 1

\* the written and the stale records: one line each, of the matching kind
C22_WriteAndSkipNotified ==
    [][ RecordStep =>
            /\ printed' = "Stored/Updated" <=> branch' \in Writes
            /\ printed' = "Skipping" <=> branch' \in Skips ]_vars

\* C22: for every record of a batch store_records emits exactly one
\* notification that matches the outcome: 'Stored/Updated' iff the record
\* was written, 'Skipping' iff it was skipped as stale, and a report when it
\* was skipped for lacking an id.
C22_OneNotificationPerDecision ==
    /\ C22_WriteAndSkipNotified
    /\ [][ (RecordStep /\ branch' = "no_id") => printed' # "" ]_vars

----------------------------------------------------------------------------
(* C23 *)

\* s is t cut short
IsProperPrefix(s, t) ==
    /\ Len(s) < Len(t)
    /\ \A j \in 1..Len(s) : s[j] = t[j]

\* s <= t of Python on str, character by character from the left
RECURSIVE LexLeq(_, _)
LexLeq(s, t) ==
    IF s = <<>> THEN TRUE
    ELSE IF t = <<>> THEN FALSE
    ELSE IF Head(s) # Head(t) THEN Head(s) < Head(t)
    ELSE LexLeq(Tail(s), Tail(t))

\* C23: between two non-empty markers the comparison of the strings,
\* character by character, decides and nothing else: the record is skipped
\* iff its marker is <= the stored one as a string.  An incoming marker that
\* is a proper prefix of the stored one (the date of a stored datetime) is
\* skipped, and with the prefix stored the longer marker is written.
C23_LexicographicStaleness ==
    AtIteration =>
        \A rec \in WithId :
            HasRow(regulations, rec["id"]) =>
                LET S == RowOf(regulations, rec["id"]).source_last_modified
                    M == MarkerIn(rec)
                    written_over ==
                        /\ RowsOf(After(rec), rec["id"]) =
                               {WholeRow(rec, level, source_url, now)}
                        /\ BranchOf(schema, regulations, rec) = "replace_newer"
                    skipped ==
                        /\ After(rec) = regulations
                        /\ BranchOf(schema, regulations, rec) \in Skips
                IN  (S # <<>> /\ M # <<>>) =>
                        /\ skipped <=> LexLeq(M, S)
                        /\ written_over <=> ~LexLeq(M, S)
                        /\ IsProperPrefix(M, S) => skipped
                        /\ IsProperPrefix(S, M) => written_over

\* the row stored under "1" has just been written over by a record with the
\* marker "11", of which "1" is a proper prefix
C23_Witness ==
    /\ pc = "store"
    /\ branch = "replace_newer"
    /\ printed = "Stored/Updated"
    /\ \E r \in regulations :
          /\ r.id \in written
          /\ r.source_last_modified = <<1, 1>>
          /\ IsProperPrefix(<<1>>, r.source_last_modified)

----------------------------------------------------------------------------
(* C24 *)

\* the functions of the pipeline
CoreCalls ==
    {"init_db", "store_records", "fetch_federal_updates", "fetch_state_updates"}

\* C24: no step of init_db, of store_records or of a fetch function creates,
\* changes or deletes a row of briefs, the write over a regulation that has a
\* brief included; the briefs change only when generate_all_briefs adds one.
C24_BriefsUntouched ==
    /\ [][ lastCall' \in CoreCalls => briefs' = briefs ]_vars
    /\ [][ briefs' # briefs =>
              /\ lastCall' = "generate_all_briefs"
              /\ briefs \subseteq briefs'
              /\ regulations' = regulations ]_vars

\* store_records has just written over a regulation that has a brief
C24_Witness ==
    /\ pc = "store"
    /\ branch \in Replaces
    /\ \E b \in briefs : b.regulation_id \in written
    /\ "briefs" \in DOMAIN schema

----------------------------------------------------------------------------
(* C25 *)

\* the ids every record of which has carried a marker so far
CleanIds == {k \in DOMAIN seen : seen[k].clean}

----------------------------------------------------------------------------
(* C26 *)

\* the item has neither a session nor a print number
LacksBoth(item) == PairOf(item) = <<"", "">>

\* the items of the model's normalizer inputs and responses
AllStateItems == RawState \cup BareItems

====
